---- MODULE Spec2Model ----
(***************************************************************************)
(* A_maze_ing: the MazeGenerator orchestrator of mazegen.py together with  *)
(* the collaborators it drives (Maze, forty_two_marking,                   *)
(* dfs_maze_generator, multiple_path_maze, bfs_shortest_path_solver).      *)
(* The orchestrator is translated from mazegen.py; the collaborators live  *)
(* in maze_files/, and are modelled from their written design.             *)
(***************************************************************************)
EXTENDS Integers, Sequences, FiniteSets, TLC

(***************************************************************************)
(* Bounds of the model.                                                    *)
(***************************************************************************)
MaxW == 3
MaxH == 2
MaxSeed == 2
MaxLen == 3

(***************************************************************************)
(* Optional values: None, or a value wrapped in a one-element sequence.    *)
(***************************************************************************)
None == <<>>
Some(v) == <<v>>

(***************************************************************************)
(* Maze data model (maze_files/maze_definitions.py).                       *)
(***************************************************************************)
FullMask == 15
NorthBit == 1
EastBit == 2
SouthBit == 4
WestBit == 8

Dirs == <<"N", "E", "S", "W">>

Bit(d) ==
    CASE d = "N" -> NorthBit
      [] d = "E" -> EastBit
      [] d = "S" -> SouthBit
      [] d = "W" -> WestBit

Opposite(d) ==
    CASE d = "N" -> "S"
      [] d = "E" -> "W"
      [] d = "S" -> "N"
      [] d = "W" -> "E"

\* y grows downward: north = y-1, south = y+1, east = x+1, west = x-1.
Step(c, d) ==
    CASE d = "N" -> <<c[1], c[2] - 1>>
      [] d = "E" -> <<c[1] + 1, c[2]>>
      [] d = "S" -> <<c[1], c[2] + 1>>
      [] d = "W" -> <<c[1] - 1, c[2]>>

Cells(w, h) == {<<x, y>> : x \in 0..(w - 1), y \in 0..(h - 1)}

Maze(height, width, entry, exit) ==
    [height |-> height, width |-> width, entry |-> entry, exit |-> exit,
     grid |-> [c \in Cells(width, height) |-> FullMask]]

CellsOf(m) == Cells(m.width, m.height)

\* The cells of the maze, row by row.
RowMajor(m) ==
    [i \in 1..(m.width * m.height) |->
        <<(i - 1) % m.width, (i - 1) \div m.width>>]

MaskHasWall(mask, d) == (mask \div Bit(d)) % 2 = 1

hasWall(m, a, d) == MaskHasWall(m.grid[a], d)

ClearBit(mask, d) == IF MaskHasWall(mask, d) THEN mask - Bit(d) ELSE mask

\* A plausible slip: only the wall on a's side is cleared.
openWallOneSided(m, a, d) ==
    [m EXCEPT !.grid = [@ EXCEPT ![a] = ClearBit(@, d)]]

\* Opens the wall between a and its neighbour toward d, on both sides.
openWall(m, a, d) ==
    [m EXCEPT !.grid = [@ EXCEPT ![a] = ClearBit(@, d),
                                 ![Step(a, d)] = ClearBit(@, Opposite(d))]]

DirSet == {"N", "E", "S", "W"}

\* The directions of the set keep, in N, E, S, W order.
FilterDirs(keep) ==
    LET Pick(d) == IF d \in keep THEN <<d>> ELSE <<>>
    IN  Pick("N") \o Pick("E") \o Pick("S") \o Pick("W")

\* In-bounds neighbour directions of a, whatever the walls, in N, E, S, W order.
neighbors(m, a) ==
    LET InGrid(d) == Step(a, d) \in CellsOf(m)
    IN  FilterDirs({d \in DirSet : InGrid(d)})

ClosedWalls(mask) == Cardinality({i \in 1..4 : MaskHasWall(mask, Dirs[i])})

(***************************************************************************)
(* The seeded random source the carver draws from.                         *)
(***************************************************************************)
RandMod == 64
RandMul == 13
RandInc == 7

\* Seeding scrambles the seed into a state of the source.
RandSeed(seed) == (21 * seed + 5) % RandMod
RandNext(r) == (RandMul * r + RandInc) % RandMod
\* random.choice over n candidates: a zero-based index.
RandIndex(r, n) == (r \div 4) % n

(***************************************************************************)
(* Breadth-first shortest-path solver (bfs_shortest_path_solver).          *)
(***************************************************************************)
RECURSIVE BfsLoopDepthFirst(_, _, _)
\* A plausible slip: the frontier is used as a stack, newest first.
BfsLoopDepthFirst(m, queue, pred) ==
    IF queue = <<>> THEN pred
    ELSE LET cur == Head(queue)
             Fresh(d) == /\ Step(cur, d) \in CellsOf(m)
                         /\ ~hasWall(m, cur, d)
                         /\ Step(cur, d) \notin DOMAIN pred
             ds == FilterDirs({d \in DirSet : Fresh(d)})
             new == [i \in 1..Len(ds) |-> Step(cur, ds[i])]
             found == [c \in {new[i] : i \in 1..Len(new)} |-> cur]
         IN  BfsLoopDepthFirst(m, new \o Tail(queue), found @@ pred)

RECURSIVE BfsLoop(_, _, _)
\* queue: the frontier, oldest first; pred: each reached cell's predecessor.
\* Neighbours are expanded in N, E, S, W order through open walls only.
BfsLoop(m, queue, pred) ==
    IF queue = <<>> THEN pred
    ELSE LET cur == Head(queue)
             Fresh(d) == /\ Step(cur, d) \in CellsOf(m)
                         /\ ~hasWall(m, cur, d)
                         /\ Step(cur, d) \notin DOMAIN pred
             ds == FilterDirs({d \in DirSet : Fresh(d)})
             new == [i \in 1..Len(ds) |-> Step(cur, ds[i])]
             found == [c \in {new[i] : i \in 1..Len(new)} |-> cur]
         IN  BfsLoop(m, Tail(queue) \o new, found @@ pred)

RECURSIVE WalkBack(_, _, _)
\* The predecessors from c back to entry, as the path entry..c.
WalkBack(pred, entry, c) ==
    IF c = entry THEN <<entry>> ELSE Append(WalkBack(pred, entry, pred[c]), c)

\* The solver's outcome: the path, or the Unreachable failure.
bfs_shortest_path_solver(m) ==
    IF m.entry \notin CellsOf(m) \/ m.exit \notin CellsOf(m)
    THEN [kind |-> "Unreachable", val |-> <<>>]
    ELSE LET pred == BfsLoop(m, <<m.entry>>, (m.entry :> m.entry))
         IN  IF m.exit \in DOMAIN pred
             THEN [kind |-> "list", val |-> WalkBack(pred, m.entry, m.exit)]
             ELSE [kind |-> "Unreachable", val |-> <<>>]

(***************************************************************************)
(* MazeGenerator.coords_to_directions, lines 109-130: the encoding of a    *)
(* coordinate list.                                                        *)
(***************************************************************************)
\* A plausible slip: y taken to grow northward.
StepLetterNorthUp(p, q) ==
    LET dx == q[1] - p[1]
        dy == q[2] - p[2]
    IN  CASE dx = 0 /\ dy = 1 -> "N"
          [] dx = 1 /\ dy = 0 -> "E"
          [] dx = 0 /\ dy = -1 -> "S"
          [] dx = -1 /\ dy = 0 -> "W"
          [] OTHER -> "ValueError"

StepLetter(p, q) ==
    LET dx == q[1] - p[1]
        dy == q[2] - p[2]
    IN  CASE dx = 0 /\ dy = -1 -> "N"
          [] dx = 1 /\ dy = 0 -> "E"
          [] dx = 0 /\ dy = 1 -> "S"
          [] dx = -1 /\ dy = 0 -> "W"
          [] OTHER -> "ValueError"

\* A plausible slip: a pair that is no unit step is skipped, not refused.
EncodeListSkipping(coords_list) ==
    IF Len(coords_list) < 2 THEN [kind |-> "str", val |-> <<>>]
    ELSE LET out == [i \in 1..(Len(coords_list) - 1) |->
                        StepLetter(coords_list[i], coords_list[i + 1])]
             Good(l) == l # "ValueError"
         IN  [kind |-> "str", val |-> SelectSeq(out, Good)]

EncodeList(coords_list) ==
    IF Len(coords_list) < 2 THEN [kind |-> "str", val |-> <<>>]
    ELSE LET out == [i \in 1..(Len(coords_list) - 1) |->
                        StepLetter(coords_list[i], coords_list[i + 1])]
         IN  IF \E i \in 1..Len(out) : out[i] = "ValueError"
             THEN [kind |-> "ValueError", val |-> <<>>]
             ELSE [kind |-> "str", val |-> out]

(***************************************************************************)
(* State.                                                                  *)
(*   cfg          the ConfigGen record the generator is bound to           *)
(*   hasBraider   multiple_path_maze was imported (is not None)            *)
(*   hasMarker    forty_two_marking was imported (is not None)             *)
(*   glyph        the pattern forty_two_marking draws, an opaque input     *)
(*   _maze, _path, _forbidden   the fields of MazeGenerator                *)
(*   rng          the state of the random source                           *)
(*   pc           "idle", or the stage a running generate has reached      *)
(*   stack, visited   the carver's locals                                  *)
(*   scan         the braider's position in its row-by-row scan            *)
(*   ret          the outcome of the last call: op, kind and value         *)
(*   solved       what solve_maze_path returned since the last generate    *)
(*   first        the outcome of the first completed generate and of the   *)
(*                solve that followed it; run counts completed generates   *)
(*                (0, 1, or 2 for "more than one")                         *)
(***************************************************************************)
VARIABLES cfg, hasBraider, hasMarker, glyph, _maze, _path, _forbidden,
          rng, pc, stack, visited, scan, ret, solved, first

vars == <<cfg, hasBraider, hasMarker, glyph, _maze, _path, _forbidden,
          rng, pc, stack, visited, scan, ret, solved, first>>

env == <<cfg, hasBraider, hasMarker, glyph>>

(***************************************************************************)
(* Inputs.                                                                 *)
(***************************************************************************)
Entries == {<<0, 0>>, <<1, 0>>}
Exits == {<<MaxW - 1, MaxH - 1>>, <<0, MaxH - 1>>, <<1, 0>>}

\* The configurations tried: entry and exit are two distinct coordinates.
ConfigGen ==
    {c \in [width : 0..MaxW, height : 0..MaxH, entry : Entries, exit : Exits,
            seed : 0..MaxSeed, perfect : BOOLEAN, marking_42 : BOOLEAN] :
        c.entry # c.exit}

\* Patterns the marker may draw; all leave the cell (0, 0) free.
Glyphs == {{}, {<<2, 0>>}, {<<1, 0>>, <<1, 1>>}}

Result(op, kind, val) == [op |-> op, kind |-> kind, val |-> val]

\* MazeGenerator.__init__, line 40.
InitForbidden == {}

Init ==
    /\ cfg \in ConfigGen
    /\ hasBraider \in BOOLEAN
    /\ hasMarker \in BOOLEAN
    /\ glyph \in (IF cfg.marking_42 /\ hasMarker THEN Glyphs ELSE {{}})
    /\ _maze = None
    /\ _path = None
    /\ _forbidden = InitForbidden
    /\ rng = 0
    /\ pc = "idle"
    /\ stack = <<>>
    /\ visited = {}
    /\ scan = 0
    /\ ret = Result("__init__", "ok", <<>>)
    /\ solved = None
    /\ first = [maze |-> None, forbidden |-> None, path |-> None, run |-> 0]

(***************************************************************************)
(* forty_two_marking: the pattern, clipped to the grid.                    *)
(***************************************************************************)
forty_two_marking(m) == glyph \cap CellsOf(m)

(***************************************************************************)
(* dfs_maze_generator: the randomized depth-first carver.                  *)
(***************************************************************************)
ValidConfig(m) ==
    /\ m.width > 0
    /\ m.height > 0
    /\ m.entry \in CellsOf(m)
    /\ m.exit \in CellsOf(m)

\* The carver's set-up: seed the source, mark the forbidden cells visited,
\* choose the start cell among the others.
DfsStart(m, forbidden, seed) ==
    IF ~ValidConfig(m)
    THEN [kind |-> "ConfigurationError"]
    ELSE LET r0 == RandSeed(seed)
             Free(c) == c \notin forbidden
             cand == SelectSeq(RowMajor(m), Free)
             start == cand[RandIndex(r0, Len(cand)) + 1]
         IN  [kind |-> "ok", rng |-> RandNext(r0), stack |-> <<start>>,
              visited |-> forbidden \cup {start}]

\* A plausible slip: at a dead end the loop forgets to pop.
DfsStepNoBacktrack(m, stk, vis, r) ==
    LET top == stk[Len(stk)]
        Unvisited(d) == Step(top, d) \in CellsOf(m) /\ Step(top, d) \notin vis
        ds == FilterDirs({d \in DirSet : Unvisited(d)})
    IN  IF ds # <<>>
        THEN LET d == ds[RandIndex(r, Len(ds)) + 1]
             IN  [maze |-> openWall(m, top, d), stack |-> Append(stk, Step(top, d)),
                  visited |-> vis \cup {Step(top, d)}, rng |-> RandNext(r)]
        ELSE [maze |-> m, stack |-> stk, visited |-> vis, rng |-> r]

\* One iteration of the carving loop on top-of-stack.
DfsStep(m, stk, vis, r) ==
    LET top == stk[Len(stk)]
        Unvisited(d) == Step(top, d) \in CellsOf(m) /\ Step(top, d) \notin vis
        ds == FilterDirs({d \in DirSet : Unvisited(d)})
    IN  IF ds # <<>>
        THEN LET d == ds[RandIndex(r, Len(ds)) + 1]
             IN  [maze |-> openWall(m, top, d), stack |-> Append(stk, Step(top, d)),
                  visited |-> vis \cup {Step(top, d)}, rng |-> RandNext(r)]
        ELSE [maze |-> m, stack |-> SubSeq(stk, 1, Len(stk) - 1),
              visited |-> vis, rng |-> r]

(***************************************************************************)
(* multiple_path_maze: the braider.  It scans the cells row by row and     *)
(* gives every dead end one more opening, toward the first neighbour in    *)
(* N, E, S, W order that is already carved and still walled off from it.   *)
(***************************************************************************)
NeverCarved(m) == \A c \in CellsOf(m) : m.grid[c] = FullMask

BraidCell(m, c) ==
    LET Extra(d) == /\ Step(c, d) \in CellsOf(m)
                    /\ hasWall(m, c, d)
                    /\ m.grid[Step(c, d)] # FullMask
        ds == FilterDirs({d \in DirSet : Extra(d)})
    IN  IF ClosedWalls(m.grid[c]) = 3 /\ ds # <<>>
        THEN openWall(m, c, ds[1])
        ELSE m

(***************************************************************************)
(* MazeGenerator.generate, lines 67-93.  The carving loop and the braiding *)
(* scan run one iteration per step; no other call runs in between.         *)
(* Line 67 declares generate a property: reading the attribute runs the    *)
(* body below, and ret records the body's outcome (the maze it returns or  *)
(* the error it raises).                                                   *)
(***************************************************************************)
\* Line 76: the path of an earlier run is dropped.
GeneratePathKept == _path
GeneratePathReset == None

\* Line 80.
MarkingRequested == cfg.marking_42 /\ hasMarker

\* Line 84, second argument: the forbidden set handed to the carver.
DfsForbiddenNone(forb) == {}
DfsForbiddenArg(forb) == forb

\* Line 84, third argument: the seed handed to the carver.
CarverSeedAmbient == rng
CarverSeed == cfg.seed

\* Line 85.
NeedsBraidAlways == TRUE
NeedsBraidNever == FALSE
NeedsBraid == ~cfg.perfect

\* Line 86.
BraiderMissingIgnored == FALSE
BraiderMissing == ~hasBraider

\* The first completed run is remembered, to compare later runs with it:
\* its maze and forbidden set, and the path solved for it.
NoteMaze(m) ==
    IF first.run = 0
    THEN [first EXCEPT !.maze = Some(m), !.forbidden = Some(_forbidden),
                       !.run = 1]
    ELSE [first EXCEPT !.run = 2]

NotePath(p) ==
    IF first.run = 1 /\ first.path = None
    THEN [first EXCEPT !.path = Some(p)]
    ELSE first

\* Line 93.
Return(m) ==
    /\ pc' = "idle"
    /\ ret' = Result("generate", "Maze", m)
    /\ first' = NoteMaze(m)

Raise(op, kind) == ret' = Result(op, kind, <<>>)

\* A plausible slip: the dimensions handed over in the wrong order.
FreshMazeTransposed == Maze(cfg.width, cfg.height, cfg.entry, cfg.exit)

\* Line 73: the blank maze built from the configuration.
FreshMaze == Maze(cfg.height, cfg.width, cfg.entry, cfg.exit)

\* Lines 70-84, up to the carver's first loop test.
GenerateBegin ==
    /\ pc = "idle"
    /\ LET m == FreshMaze
           forb == IF MarkingRequested THEN forty_two_marking(m) ELSE {}
           d == DfsStart(m, DfsForbiddenArg(forb), CarverSeed)
       IN  /\ _maze' = Some(m)
           /\ _path' = GeneratePathReset
           /\ _forbidden' = forb
           /\ solved' = None
           /\ IF d.kind = "ConfigurationError"
              THEN /\ Raise("generate", "ConfigurationError")
                   /\ UNCHANGED <<rng, pc, stack, visited>>
              ELSE /\ ret' = Result("generate", "running", <<>>)
                   /\ rng' = d.rng
                   /\ pc' = "carve"
                   /\ stack' = d.stack
                   /\ visited' = d.visited
    /\ UNCHANGED <<env, scan, first>>

\* Line 84: one iteration of the carver's loop.
CarveStep ==
    /\ pc = "carve"
    /\ stack # <<>>
    /\ LET n == DfsStep(_maze[1], stack, visited, rng)
       IN  /\ _maze' = Some(n.maze)
           /\ stack' = n.stack
           /\ visited' = n.visited
           /\ rng' = n.rng
    /\ UNCHANGED <<env, _path, _forbidden, pc, scan, ret, solved, first>>

\* Lines 85-93, once the carver has returned.
GenerateAfterCarve ==
    /\ pc = "carve"
    /\ stack = <<>>
    /\ IF ~NeedsBraid
       THEN Return(_maze[1]) /\ UNCHANGED scan
       ELSE IF BraiderMissing
       THEN /\ Raise("generate", "MissingFeature")
            /\ pc' = "idle"
            /\ UNCHANGED <<scan, first>>
       ELSE IF NeverCarved(_maze[1])
       THEN /\ Raise("generate", "PreconditionError")
            /\ pc' = "idle"
            /\ UNCHANGED <<scan, first>>
       ELSE /\ pc' = "braid"
            /\ scan' = 1
            /\ UNCHANGED <<ret, first>>
    /\ UNCHANGED <<env, _maze, _path, _forbidden, rng, stack, visited, solved>>

\* Line 91: the braider looks at one cell.
BraidStep ==
    /\ pc = "braid"
    /\ scan <= Len(RowMajor(_maze[1]))
    /\ _maze' = Some(BraidCell(_maze[1], RowMajor(_maze[1])[scan]))
    /\ scan' = scan + 1
    /\ UNCHANGED <<env, _path, _forbidden, rng, pc, stack, visited, ret,
                   solved, first>>

\* Lines 91-93: the braider has returned.
BraidDone ==
    /\ pc = "braid"
    /\ scan > Len(RowMajor(_maze[1]))
    /\ Return(_maze[1])
    /\ UNCHANGED <<env, _maze, _path, _forbidden, rng, stack, visited, scan,
                   solved>>

(***************************************************************************)
(* The accessors, lines 42-65.                                             *)
(***************************************************************************)
\* Lines 45-49.
MazeAccessorUnguarded ==
    IF _maze = None THEN Result("maze", "None", <<>>)
    ELSE Result("maze", "Maze", _maze[1])
MazeAccessor ==
    IF _maze = None THEN Result("maze", "NotGenerated", <<>>)
    ELSE Result("maze", "Maze", _maze[1])

\* Lines 56-59: no guard, the set is copied out in every state.
ForbiddenCellsGuarded ==
    IF _maze = None THEN Result("forbidden_cells", "NotGenerated", <<>>)
    ELSE Result("forbidden_cells", "set", _forbidden)
ForbiddenCellsAccessor == Result("forbidden_cells", "set", _forbidden)

\* Lines 61-65: raises while unsolved; otherwise falls off the end of the
\* function, and the caller gets None.
PathAccessor ==
    IF _path = None THEN Result("path", "NotSolved", <<>>)
    ELSE Result("path", "None", <<>>)

ReadOnly == UNCHANGED <<env, _maze, _path, _forbidden, rng, pc, stack, visited,
                        scan, solved, first>>

ReadMaze == pc = "idle" /\ ret' = MazeAccessor /\ ReadOnly

\* Lines 51-54.
ReadGrid ==
    /\ pc = "idle"
    /\ ret' = (IF MazeAccessor.kind = "Maze"
               THEN Result("grid", "grid", MazeAccessor.val.grid)
               ELSE Result("grid", MazeAccessor.kind, <<>>))
    /\ ReadOnly

ReadForbiddenCells == pc = "idle" /\ ret' = ForbiddenCellsAccessor /\ ReadOnly

ReadPath == pc = "idle" /\ ret' = PathAccessor /\ ReadOnly

(***************************************************************************)
(* MazeGenerator.solve_maze_path, lines 95-98.                             *)
(***************************************************************************)
\* A plausible slip: the solver's failure is swallowed and an empty path
\* stored.
SolveMazePathSwallowing ==
    /\ pc = "idle"
    /\ LET a == MazeAccessor
           r == bfs_shortest_path_solver(a.val)
           p == IF r.kind = "list" THEN r.val ELSE <<>>
       IN  IF a.kind # "Maze"
           THEN /\ Raise("solve_maze_path", a.kind)
                /\ UNCHANGED <<_path, solved, first>>
           ELSE /\ _path' = Some(p)
                /\ ret' = Result("solve_maze_path", "list", p)
                /\ solved' = Some(p)
                /\ first' = NotePath(p)
    /\ UNCHANGED <<env, _maze, _forbidden, rng, pc, stack, visited, scan>>

\* A plausible slip: the search marks the entry cell in the grid itself.
SolveMazePathMarking ==
    /\ pc = "idle"
    /\ LET a == MazeAccessor
           r == bfs_shortest_path_solver(a.val)
       IN  IF a.kind # "Maze"
           THEN /\ Raise("solve_maze_path", a.kind)
                /\ UNCHANGED <<_maze, _path, solved, first>>
           ELSE IF r.kind # "list"
           THEN /\ Raise("solve_maze_path", r.kind)
                /\ UNCHANGED <<_maze, _path, solved, first>>
           ELSE /\ _path' = Some(r.val)
                /\ _maze' = Some([a.val EXCEPT !.grid[a.val.entry] = FullMask])
                /\ ret' = Result("solve_maze_path", "list", r.val)
                /\ solved' = Some(r.val)
                /\ first' = NotePath(r.val)
    /\ UNCHANGED <<env, _forbidden, rng, pc, stack, visited, scan>>

SolveMazePath ==
    /\ pc = "idle"
    /\ LET a == MazeAccessor
           r == bfs_shortest_path_solver(a.val)
       IN  IF a.kind # "Maze"
           THEN /\ Raise("solve_maze_path",
                         IF a.kind = "None" THEN "AttributeError" ELSE a.kind)
                /\ UNCHANGED <<_path, solved, first>>
           ELSE IF r.kind # "list"
           THEN /\ Raise("solve_maze_path", r.kind)
                /\ UNCHANGED <<_path, solved, first>>
           ELSE /\ _path' = Some(r.val)
                /\ ret' = Result("solve_maze_path", "list", r.val)
                /\ solved' = Some(r.val)
                /\ first' = NotePath(r.val)
    /\ UNCHANGED <<env, _maze, _forbidden, rng, pc, stack, visited, scan>>

(***************************************************************************)
(* MazeGenerator.coords_to_directions, lines 100-130.                      *)
(***************************************************************************)
\* coords is None: lines 104-105, then line 110 takes len() of what the
\* path accessor gave.
DirectionsOfPath ==
    LET a == PathAccessor
    IN  IF a.kind = "NotSolved" THEN Result("coords_to_directions", a.kind, <<>>)
        ELSE IF a.kind = "None"
        THEN Result("coords_to_directions", "TypeError", <<>>)
        ELSE [op |-> "coords_to_directions"] @@ EncodeList(a.val)

CoordsToDirections == pc = "idle" /\ ret' = DirectionsOfPath /\ ReadOnly

\* The sequences a caller passes: the path solve_maze_path returned, and
\* a jump.
CoordInputs ==
    {<< <<0, 0>>, <<2, 0>> >>} \cup (IF solved = None THEN {} ELSE {solved[1]})

\* coords is given: lines 106-130.
CoordsToDirectionsOf ==
    /\ pc = "idle"
    /\ \E coords \in CoordInputs :
          ret' = [op |-> "coords_to_directions(coords)", arg |-> coords]
                    @@ EncodeList(coords)
    /\ ReadOnly

(***************************************************************************)
(* A second MazeGenerator bound to the same configuration, lines 35-40.    *)
(* The random source is the process's, and outlives the instance.          *)
(***************************************************************************)
NewInstance ==
    /\ pc = "idle"
    /\ _maze # None
    /\ _maze' = None
    /\ _path' = None
    /\ _forbidden' = InitForbidden
    /\ solved' = None
    /\ ret' = Result("__init__", "ok", <<>>)
    /\ UNCHANGED <<env, rng, pc, stack, visited, scan, first>>

(***************************************************************************)
(* coords_to_directions as a function of its argument alone: a generator   *)
(* about to be handed one coordinate sequence of up to MaxLen points of    *)
(* the largest grid, and the call.                                         *)
(***************************************************************************)
Points == Cells(MaxW, MaxH)

CoordSeqs == UNION {[1..n -> Points] : n \in 0..MaxLen}

InitEnc ==
    /\ cfg = [width |-> MaxW, height |-> MaxH, entry |-> <<0, 0>>,
              exit |-> <<1, 0>>, seed |-> 0, perfect |-> TRUE,
              marking_42 |-> FALSE]
    /\ hasBraider = TRUE
    /\ hasMarker = TRUE
    /\ glyph = {}
    /\ _maze = None
    /\ _path = None
    /\ _forbidden = InitForbidden
    /\ rng = 0
    /\ pc = "idle"
    /\ stack = <<>>
    /\ visited = {}
    /\ scan = 0
    /\ \E coords \in CoordSeqs :
          ret = [op |-> "__init__", kind |-> "ok", val |-> <<>>, arg |-> coords]
    /\ solved = None
    /\ first = [maze |-> None, forbidden |-> None, path |-> None, run |-> 0]

EncodeSequence ==
    /\ pc = "idle"
    /\ ret.op = "__init__"
    /\ ret' = [op |-> "coords_to_directions(coords)", arg |-> ret.arg]
                 @@ EncodeList(ret.arg)
    /\ ReadOnly

SpecEnc == InitEnc /\ [][EncodeSequence]_vars

Next ==
    \/ GenerateBegin
    \/ CarveStep
    \/ GenerateAfterCarve
    \/ BraidStep
    \/ BraidDone
    \/ ReadMaze
    \/ ReadGrid
    \/ ReadForbiddenCells
    \/ ReadPath
    \/ SolveMazePath
    \/ CoordsToDirections
    \/ CoordsToDirectionsOf
    \/ NewInstance

Spec == Init /\ [][Next]_vars

\* The generate calls alone.  A call runs to completion: the carving loop of
\* line 84 keeps taking iterations while its stack is not empty.
GenerateCalls ==
    \/ GenerateBegin
    \/ CarveStep
    \/ GenerateAfterCarve
    \/ BraidStep
    \/ BraidDone

SpecLive == Init /\ [][GenerateCalls]_vars /\ WF_vars(CarveStep)

(***************************************************************************)
(* Vocabulary of the properties.                                           *)
(***************************************************************************)
Failures == {"NotGenerated", "NotSolved", "MissingFeature", "ConfigurationError",
             "PreconditionError", "Unreachable", "TypeError", "ValueError",
             "AttributeError"}

Failed == ret.kind \in Failures

Unconfigured == _maze = None

\* A generate call has returned its maze and nothing has been called since.
Generated == pc = "idle" /\ ret.op = "generate" /\ ret.kind = "Maze"

Letters == {"N", "E", "S", "W"}

\* The walls open between two cells of the grid, each counted once.
OpenEdges(m) ==
    {<<c, d>> \in CellsOf(m) \X {"E", "S"} :
        Step(c, d) \in CellsOf(m) /\ ~hasWall(m, c, d)}

RECURSIVE OpenClosure(_, _)
\* The cells joined to the cells of S by open walls.
OpenClosure(m, S) ==
    LET next == S \cup {n \in CellsOf(m) :
                          \E c \in S, i \in 1..4 :
                             Step(c, Dirs[i]) = n /\ ~hasWall(m, c, Dirs[i])}
    IN  IF next = S THEN S ELSE OpenClosure(m, next)

RECURSIVE GridClosure(_, _, _)
\* The cells joined to the cells of S by steps that avoid the set forb.
GridClosure(cells, forb, S) ==
    LET next == S \cup {n \in cells \ forb :
                          \E c \in S, i \in 1..4 : Step(c, Dirs[i]) = n}
    IN  IF next = S THEN S ELSE GridClosure(cells, forb, next)

\* The cell the carver started from in the run that built the stored maze.
CarveStart ==
    DfsStart(Maze(cfg.height, cfg.width, cfg.entry, cfg.exit), _forbidden,
             cfg.seed).stack[1]

\* The cells the carver entered.
Carved == visited \ _forbidden

(***************************************************************************)
(* C1.  In the Solved state, reading the path accessor yields exactly the  *)
(* sequence solve_maze_path returned: a non-empty list from entry to exit. *)
(* Stated of the code as written; line 65 is the accessor's last line.     *)
(***************************************************************************)
PathReadYieldsSolvedPath ==
    (ret.op = "path" /\ solved # None) =>
        /\ ret.kind = "list"
        /\ ret.val = solved[1]
        /\ Len(ret.val) > 0
        /\ ret.val[1] = cfg.entry
        /\ ret.val[Len(ret.val)] = cfg.exit

(***************************************************************************)
(* C2.  After generate and a successful solve_maze_path,                   *)
(* coords_to_directions() with no sequence returns the same string as      *)
(* coords_to_directions(p) for the solved path p: letters of N, E, S, W,   *)
(* one fewer than the coordinates of p.                                    *)
(***************************************************************************)
DirectionsOfSolvedPath ==
    (ret.op = "coords_to_directions" /\ solved # None) =>
        /\ ret.kind = "str"
        /\ ret.val = EncodeList(solved[1]).val
        /\ Len(ret.val) = Len(solved[1]) - 1
        /\ \A i \in 1..Len(ret.val) : ret.val[i] \in Letters

(***************************************************************************)
(* C3.  While nothing has been generated, solve_maze_path and the maze and *)
(* grid accessors fail with the not-generated error, and the failed call   *)
(* leaves the generator with no maze and no path.                          *)
(***************************************************************************)
UnconfiguredCallsFail ==
    [][(Unconfigured /\ ret'.op \in {"solve_maze_path", "maze", "grid"}) =>
          (ret'.kind = "NotGenerated" /\ _maze' = None /\ _path' = None)]_vars

UnconfiguredSolveFailed ==
    Unconfigured /\ ret.op = "solve_maze_path" /\ ret.kind = "NotGenerated"

(***************************************************************************)
(* C4.  The path accessor, and coords_to_directions() with no argument,    *)
(* succeed only if some solve_maze_path succeeded after the most recent    *)
(* generate: generate drops the path of the earlier maze.                  *)
(***************************************************************************)
PathNeedsSolveSinceGenerate ==
    (ret.op \in {"path", "coords_to_directions"} /\ ~Failed) => solved # None

\* A maze was solved, then another run began, and the path read failed.
StalePathRefused ==
    /\ ret.op = "path"
    /\ ret.kind = "NotSolved"
    /\ first.path # None
    /\ ~Unconfigured

(***************************************************************************)
(* C5.  As claimed: reading forbidden_cells before any generate fails.     *)
(***************************************************************************)
ForbiddenReadFailsUnconfigured ==
    (Unconfigured /\ ret.op = "forbidden_cells") => Failed

(***************************************************************************)
(* C5, amended.  Reading forbidden_cells before any generate succeeds and  *)
(* yields the empty set.                                                   *)
(***************************************************************************)
ForbiddenReadEmptyUnconfigured ==
    (Unconfigured /\ ret.op = "forbidden_cells") =>
        (ret.kind = "set" /\ ret.val = {})

UnconfiguredForbiddenRead ==
    Unconfigured /\ ret.op = "forbidden_cells" /\ first.run = 0

(***************************************************************************)
(* C6.  generate with perfect = False while multiple_path_maze is missing  *)
(* never returns a maze; when the configuration is valid, so that the      *)
(* carver completes, it fails with the missing-feature error.              *)
(***************************************************************************)
MissingBraiderFails ==
    (pc = "idle" /\ ret.op = "generate" /\ ~cfg.perfect /\ ~hasBraider) =>
        /\ Failed
        /\ ValidConfig(_maze[1]) => ret.kind = "MissingFeature"

MissingBraiderRaised ==
    /\ pc = "idle"
    /\ ret.op = "generate"
    /\ ret.kind = "MissingFeature"
    /\ Cardinality(OpenEdges(_maze[1])) > 1

(***************************************************************************)
(* C7.  Determinism: every completed generate run of one configuration,    *)
(* on the same generator or on a second one, yields the grid and the       *)
(* forbidden set of the first run, and solving yields the path, hence the  *)
(* direction string, solved for the first run; perfect or not.             *)
(***************************************************************************)
Determinism ==
    /\ Generated =>
          (first.maze = Some(_maze[1]) /\ first.forbidden = Some(_forbidden))
    /\ (ret.op = "solve_maze_path" /\ ret.kind = "list" /\ first.path # None) =>
          /\ ret.val = first.path[1]
          /\ EncodeList(ret.val) = EncodeList(first.path[1])

\* A braided maze generated and solved a second time.
SecondRunSolved ==
    /\ first.run = 2
    /\ first.path # None
    /\ ret.op = "solve_maze_path"
    /\ ret.kind = "list"
    /\ ~cfg.perfect
    /\ Len(ret.val) > 2

(***************************************************************************)
(* C8.  Wall symmetry: in every state during and after generate, after     *)
(* each carving step and each braiding step, the wall bit of a cell toward *)
(* a neighbour is set exactly when the neighbour's bit toward it is set.   *)
(***************************************************************************)
WallSymmetry ==
    _maze # None =>
        \A a \in CellsOf(_maze[1]) : \A i \in 1..4 :
            Step(a, Dirs[i]) \in CellsOf(_maze[1]) =>
                (hasWall(_maze[1], a, Dirs[i])
                    <=> hasWall(_maze[1], Step(a, Dirs[i]), Opposite(Dirs[i])))

\* The braider at work, having opened a wall the carver left closed.
BraidingOpenedWall ==
    /\ pc = "braid"
    /\ Cardinality(OpenEdges(_maze[1])) >= Cardinality(Carved)

(***************************************************************************)
(* C9.  Forbidden-cell exclusion: during and after generate, perfect or    *)
(* not, no forbidden cell has an open wall toward a non-forbidden          *)
(* neighbour, on either side, and the carver's start cell is not           *)
(* forbidden.                                                              *)
(***************************************************************************)
ForbiddenExclusion ==
    /\ _maze # None =>
          \A c \in _forbidden : \A i \in 1..4 :
              LET n == Step(c, Dirs[i])
              IN  (n \in CellsOf(_maze[1]) /\ n \notin _forbidden) =>
                     /\ hasWall(_maze[1], c, Dirs[i])
                     /\ hasWall(_maze[1], n, Opposite(Dirs[i]))
    /\ (pc = "carve" /\ stack # <<>>) => stack[1] \notin _forbidden

\* A braided maze with forbidden cells, one of them beside a carved cell.
BraidedAroundForbidden ==
    /\ Generated
    /\ ~cfg.perfect
    /\ \E c \in _forbidden : \E i \in 1..4 : Step(c, Dirs[i]) \in Carved
    /\ Cardinality(OpenEdges(_maze[1])) >= Cardinality(Carved)

(***************************************************************************)
(* C10.  The open-wall graph of a perfect maze is a tree over the cells    *)
(* the carver entered.                                                     *)
(***************************************************************************)
IsTree(m) ==
    /\ OpenClosure(m, {CarveStart}) = Carved
    /\ Cardinality(OpenEdges(m)) = Cardinality(Carved) - 1

\* The forbidden set neither contains entry or exit nor separates them.
EntryExitJoined ==
    /\ cfg.entry \notin _forbidden
    /\ cfg.exit \in GridClosure(CellsOf(_maze[1]), _forbidden, {cfg.entry})

\* The forbidden set neither contains entry or exit nor separates either
\* of them from the carver's start cell.
EntryExitJoinedToStart ==
    {cfg.entry, cfg.exit} \subseteq
        GridClosure(CellsOf(_maze[1]), _forbidden, {CarveStart})

\* A solve_maze_path call on the perfect maze of a valid configuration.
SolvedPerfect ==
    /\ ret.op = "solve_maze_path"
    /\ ~Unconfigured
    /\ cfg.perfect
    /\ ValidConfig(_maze[1])

(***************************************************************************)
(* C10, as claimed.  A perfect maze is a tree, and solve_maze_path         *)
(* succeeds whenever the forbidden set neither contains nor separates      *)
(* entry and exit.                                                         *)
(***************************************************************************)
PerfectTreeSolvableIfJoined ==
    /\ (Generated /\ cfg.perfect) => IsTree(_maze[1])
    /\ (SolvedPerfect /\ EntryExitJoined) => ret.kind = "list"

(***************************************************************************)
(* C10, amended.  A perfect maze is a tree, and solve_maze_path succeeds   *)
(* whenever the forbidden set neither contains entry or exit nor separates *)
(* either of them from the carver's start cell.                            *)
(***************************************************************************)
PerfectTreeSolvableIfCarved ==
    /\ (Generated /\ cfg.perfect) => IsTree(_maze[1])
    /\ (SolvedPerfect /\ EntryExitJoinedToStart) => ret.kind = "list"

\* A perfect maze carved around forbidden cells, and solved.
PerfectSolvedAroundForbidden ==
    /\ SolvedPerfect
    /\ EntryExitJoinedToStart
    /\ _forbidden # {}
    /\ ret.kind = "list"
    /\ Len(ret.val) > 2

(***************************************************************************)
(* Distances in the open-wall graph, computed layer by layer.              *)
(***************************************************************************)
OpenNeighbours(m, S) ==
    {n \in CellsOf(m) :
        \E c \in S, i \in 1..4 : Step(c, Dirs[i]) = n /\ ~hasWall(m, c, Dirs[i])}

RECURSIVE LayerDist(_, _, _, _)
\* The number of layers from the cells of S to target; -1 when there is no
\* open-wall path.
LayerDist(m, S, target, k) ==
    IF target \in S THEN k
    ELSE LET next == S \cup OpenNeighbours(m, S)
         IN  IF next = S THEN -1 ELSE LayerDist(m, next, target, k + 1)

OpenDist(m, a, b) == LayerDist(m, {a}, b, 0)

RECURSIVE FirstShortest(_, _, _)
\* Among the shortest open-wall paths from cur to target, the one that at
\* every cell takes the first of N, E, S, W that still lies on a shortest
\* path.
FirstShortest(m, cur, target) ==
    IF cur = target THEN <<cur>>
    ELSE LET Closer(d) == /\ Step(cur, d) \in CellsOf(m)
                          /\ ~hasWall(m, cur, d)
                          /\ OpenDist(m, Step(cur, d), target)
                                = OpenDist(m, cur, target) - 1
             ds == FilterDirs({d \in DirSet : Closer(d)})
         IN  <<cur>> \o FirstShortest(m, Step(cur, ds[1]), target)

\* solve_maze_path has just returned a path.
SolveReturned == ret.op = "solve_maze_path" /\ ret.kind = "list"

(***************************************************************************)
(* C11.  Shortest-path minimality: whenever solve_maze_path succeeds, the  *)
(* returned path has as many steps as the least number of open-wall steps  *)
(* from entry to exit, perfect maze or braided, and among the shortest     *)
(* paths it is the one the N, E, S, W expansion order selects.             *)
(***************************************************************************)
ShortestPathMinimal ==
    SolveReturned =>
        /\ Len(ret.val) - 1 = OpenDist(_maze[1], cfg.entry, cfg.exit)
        /\ ret.val = FirstShortest(_maze[1], cfg.entry, cfg.exit)

\* A braided maze solved where a longer open-wall route also exists.
SolvedOnCycle ==
    /\ SolveReturned
    /\ ~cfg.perfect
    /\ Cardinality(OpenEdges(_maze[1])) >= Cardinality(Carved)
    /\ Len(ret.val) > 2

\* The open-wall graph over the carved cells has more walls open than a
\* tree has: a cycle the carved, perfect maze did not have.
HasCycle(m) == Cardinality(OpenEdges(m)) > Cardinality(Carved) - 1

\* Every two cells joined by open walls in m are still joined in n.
KeepsJoined(m, n) ==
    \A c \in CellsOf(m) : OpenClosure(m, {c}) \subseteq OpenClosure(n, {c})

\* The grid is at least two cells wide and high, and no cell is forbidden.
RoomForCycle == cfg.width >= 2 /\ cfg.height >= 2 /\ _forbidden = {}

(***************************************************************************)
(* C12, as claimed.  Braiding preserves connectivity: every braiding step  *)
(* leaves joined what was joined, and the braided maze generate returns    *)
(* for perfect = False has a cycle the carved maze did not have, for every *)
(* grid size and seed.                                                     *)
(***************************************************************************)
BraidKeepsJoinedAddsCycle ==
    [][/\ pc = "braid" => KeepsJoined(_maze[1], _maze'[1])
       /\ (Generated' /\ ~cfg.perfect) => HasCycle(_maze'[1])]_vars

(***************************************************************************)
(* C12, amended.  Braiding preserves connectivity: every braiding step     *)
(* leaves joined what was joined, and the braided maze generate returns    *)
(* for perfect = False has a cycle the carved maze did not have whenever   *)
(* the grid is at least two cells wide and two cells high and no cell is   *)
(* forbidden.                                                              *)
(***************************************************************************)
BraidKeepsJoinedAddsCycleIfRoom ==
    [][/\ pc = "braid" => KeepsJoined(_maze[1], _maze'[1])
       /\ (Generated' /\ ~cfg.perfect /\ RoomForCycle) => HasCycle(_maze'[1])]_vars

\* A braided maze returned for a grid with room for a cycle.
BraidedWithCycle ==
    /\ Generated
    /\ ~cfg.perfect
    /\ RoomForCycle
    /\ HasCycle(_maze[1])

(***************************************************************************)
(* Vocabulary of the encoder's properties.                                 *)
(***************************************************************************)
Abs(n) == IF n < 0 THEN -n ELSE n

\* Every consecutive pair of cs is one unit step along one axis.
UnitSteps(cs) ==
    \A i \in 1..(Len(cs) - 1) :
        Abs(cs[i + 1][1] - cs[i][1]) + Abs(cs[i + 1][2] - cs[i][2]) = 1

RECURSIVE Replay(_, _)
\* The coordinates visited from p by the unit moves the letters name.
Replay(p, letters) ==
    IF letters = <<>> THEN <<p>>
    ELSE <<p>> \o Replay(Step(p, Head(letters)), Tail(letters))

\* coords_to_directions was just called with a sequence.
Encoded == ret.op = "coords_to_directions(coords)"

(***************************************************************************)
(* C13.  Direction round-trip: for a sequence of unit N/E/S/W steps, y     *)
(* growing southward, coords_to_directions returns one letter per step,    *)
(* and replaying the letters from the first coordinate reproduces the      *)
(* sequence; a sequence of zero or one coordinates yields the empty        *)
(* string, not an error.                                                   *)
(***************************************************************************)
DirectionRoundTrip ==
    Encoded =>
        /\ Len(ret.arg) < 2 => (ret.kind = "str" /\ ret.val = <<>>)
        /\ (Len(ret.arg) >= 1 /\ UnitSteps(ret.arg)) =>
              /\ ret.kind = "str"
              /\ Len(ret.val) = Len(ret.arg) - 1
              /\ Replay(ret.arg[1], ret.val) = ret.arg

\* A walk that goes north, then turns, encoded.
NorthwardWalkEncoded ==
    /\ Encoded
    /\ Len(ret.arg) = 3
    /\ ret.kind = "str"
    /\ ret.val[1] = "N"
    /\ ret.val[2] # "N"

(***************************************************************************)
(* C14.  Encoding failure: when some consecutive pair of the sequence is   *)
(* no unit step (a repeated point, a diagonal, a jump), wherever it        *)
(* occurs, coords_to_directions fails with the encoding error and returns  *)
(* no partial string.                                                      *)
(***************************************************************************)
EncodingFailure ==
    (Encoded /\ ~UnitSteps(ret.arg)) =>
        (ret.kind = "ValueError" /\ ret.val = <<>>)

\* A unit step followed by a jump of two cells, refused.
LateJumpRefused ==
    /\ Encoded
    /\ ret.arg = << <<1, 0>>, <<0, 0>>, <<2, 0>> >>
    /\ ret.kind = "ValueError"

\* An open-wall path joins entry and exit in m.
Connected(m) ==
    /\ m.entry \in CellsOf(m)
    /\ m.exit \in CellsOf(m)
    /\ m.exit \in OpenClosure(m, {m.entry})

(***************************************************************************)
(* C15.  solve_maze_path fails with Unreachable whenever no open-wall path *)
(* joins entry and exit in the stored maze; the failure stores no path, so *)
(* the path accessor still fails.                                          *)
(***************************************************************************)
SolveUnreachable ==
    (ret.op = "solve_maze_path" /\ ~Unconfigured /\ ~Connected(_maze[1])) =>
        /\ ret.kind = "Unreachable"
        /\ _path = None
        /\ PathAccessor.kind = "NotSolved"

\* A maze generated around forbidden cells, whose exit the solver cannot
\* reach.
UnreachableReported ==
    /\ ret.op = "solve_maze_path"
    /\ ret.kind = "Unreachable"
    /\ first.run >= 1
    /\ ~Unconfigured
    /\ ValidConfig(_maze[1])
    /\ _forbidden # {}

\* The configuration names a non-empty grid holding entry and exit.
ConfigValid ==
    /\ cfg.width > 0
    /\ cfg.height > 0
    /\ cfg.entry \in Cells(cfg.width, cfg.height)
    /\ cfg.exit \in Cells(cfg.width, cfg.height)

(***************************************************************************)
(* C16.  generate fails with ConfigurationError when width or height is    *)
(* non-positive or entry or exit lies outside the grid; the maze stored    *)
(* for such a configuration is never carved.                               *)
(***************************************************************************)
InvalidConfigRefused ==
    ~ConfigValid =>
        /\ pc = "idle"
        /\ (ret.op = "generate" => ret.kind = "ConfigurationError")
        /\ (~Unconfigured => NeverCarved(_maze[1]))

\* A positive-sized grid whose exit lies outside it was refused.
OutsideExitRefused ==
    /\ ret.op = "generate"
    /\ ret.kind = "ConfigurationError"
    /\ cfg.width > 0
    /\ cfg.height > 0
    /\ cfg.exit \notin Cells(cfg.width, cfg.height)
    /\ ~Unconfigured

\* The generate call just returned by raising.
GenerateFailed ==
    /\ pc = "idle"
    /\ ret.op = "generate"
    /\ ret.kind \in {"MissingFeature", "ConfigurationError"}

(***************************************************************************)
(* C17.  After a generate call that fails with MissingFeature or           *)
(* ConfigurationError the generator is not in the Generated state: the     *)
(* maze and grid accessors and solve_maze_path called next all fail.       *)
(***************************************************************************)
FailedGenerateExposesNothing ==
    [][(GenerateFailed /\ ret'.op \in {"maze", "grid", "solve_maze_path"}) =>
          ret'.kind \in Failures]_vars

\* The carving loop is running / has just found its stack empty.
Carving == pc = "carve"
CarvingOver == pc = "carve" /\ stack = <<>>

(***************************************************************************)
(* C18.  The carving loop terminates: its stack eventually empties.  At    *)
(* termination the cells visited are exactly the non-forbidden cells       *)
(* joined to the start cell through non-forbidden cells; every push is of  *)
(* a cell not visited before, so each is pushed once; no forbidden cell is *)
(* ever on the stack.                                                      *)
(***************************************************************************)
CarvingTerminates ==
    /\ Carving ~> CarvingOver
    /\ [](Carving => \A i \in 1..Len(stack) :
                        stack[i] \in visited \ _forbidden)
    /\ [](CarvingOver =>
            Carved = GridClosure(CellsOf(_maze[1]), _forbidden, {CarveStart}))
    /\ [][(Carving /\ Len(stack') > Len(stack)) =>
             /\ stack'[Len(stack')] \notin visited
             /\ visited' = visited \cup {stack'[Len(stack')]}
             /\ SubSeq(stack', 1, Len(stack)) = stack]_vars

\* A carving run that ended with the forbidden cells cutting part of the
\* grid off from the start cell.
CarvedUpToForbidden ==
    /\ CarvingOver
    /\ _forbidden # {}
    /\ Cardinality(Carved) >= 2
    /\ CellsOf(_maze[1]) \ visited # {}

(***************************************************************************)
(* C19.  solve_maze_path leaves the stored maze (grid, dimensions, entry,  *)
(* exit), the forbidden set and the configuration unchanged whether it     *)
(* succeeds or fails; so a call made in the Solved state returns the path  *)
(* solved before.                                                          *)
(***************************************************************************)
SolveFrame ==
    [][(pc = "idle" /\ ret'.op = "solve_maze_path") =>
          /\ _maze' = _maze
          /\ _forbidden' = _forbidden
          /\ cfg' = cfg
          /\ (solved # None =>
                /\ ret'.kind = "list"
                /\ ret'.val = solved[1]
                /\ solved' = solved)]_vars

\* A braided maze with forbidden cells was solved, its path stored.
SolvedBraidedAroundForbidden ==
    /\ SolveReturned
    /\ _path = Some(ret.val)
    /\ ~cfg.perfect
    /\ _forbidden # {}
    /\ Len(ret.val) > 2

\* Each pair of consecutive cells of p is joined by one step whose wall is
\* open on both sides in m.
OpenWalk(m, p) ==
    \A i \in 1..(Len(p) - 1) :
        \E d \in DirSet :
            /\ Step(p[i], d) = p[i + 1]
            /\ p[i + 1] \in CellsOf(m)
            /\ ~hasWall(m, p[i], d)
            /\ ~hasWall(m, p[i + 1], Opposite(d))

(***************************************************************************)
(* C20.  Every path solve_maze_path returns is a simple open-wall path:    *)
(* no cell occurs twice, consecutive cells are adjacent with the wall      *)
(* between them open on both sides, and no cell is forbidden; so encoding  *)
(* it as directions gives a string, one letter per step, never an error.   *)
(***************************************************************************)
SolvedPathValid ==
    SolveReturned =>
        /\ \A i, j \in 1..Len(ret.val) : ret.val[i] = ret.val[j] => i = j
        /\ \A i \in 1..Len(ret.val) : ret.val[i] \in CellsOf(_maze[1]) \ _forbidden
        /\ OpenWalk(_maze[1], ret.val)
        /\ EncodeList(ret.val).kind = "str"
        /\ Len(EncodeList(ret.val).val) = Len(ret.val) - 1

\* A path of several steps found beside forbidden cells, turning a corner.
SolvedPathTurns ==
    /\ SolveReturned
    /\ _forbidden # {}
    /\ Len(ret.val) >= 3
    /\ \E i, j \in 1..(Len(ret.val) - 1) :
          StepLetter(ret.val[i], ret.val[i + 1]) #
              StepLetter(ret.val[j], ret.val[j + 1])

====
